---- MODULE Spec2Model ----
(***************************************************************************)
(* A model of the review pipeline of ai-code-reviewer: the response        *)
(* normalizer (AIReviewer.parseResponse), the single review               *)
(* (AIReviewer.reviewCode), the retry orchestrator                         *)
(* (AIReviewer.reviewCodeWithRetry), the batch orchestrator                *)
(* (AIReviewer.reviewMultipleCommits and the functions under it) and the   *)
(* application loop over a commit range (ReviewerApp.reviewCommits).       *)
(*                                                                         *)
(* Text is a sequence of tokens.  A token is one lexical unit of a         *)
(* provider answer: a JSON punctuation mark, a numeral, a word, one        *)
(* whitespace character, or a markdown fence (three backticks).            *)
(***************************************************************************)
EXTENDS Integers, Sequences, FiniteSets, TLC

(***************************************************************************)
(* Bounds of the model.                                                    *)
(***************************************************************************)
\* longest string value of a review record drawn for the normalizer
MaxStrLen == 2
\* longest arbitrary token sequence handed to the normalizer
MaxGarbageLen == 3
\* most commits in a range, or in a list handed to reviewMultipleCommits
MaxCommits == 2
\* largest retryAttempts / maxRetries drawn
MaxRetries == 4
\* a loop index of reviewCommitsBatch that runs backwards is followed down to
\* -MaxBackSteps
MaxBackSteps == 3
\* a hook is installed at most MaxInstalls times before the hooks are uninstalled
MaxInstalls == 3

(***************************************************************************)
(* Constants of the program.                                               *)
(***************************************************************************)
\* pollBatchResults: maxAttempts
PollMaxAttempts == 30
\* the largest of the small values of maxTokens
MaxSmallTokens == 4
\* the longest diff handed to buildPrompt, in tokens
MaxDiffLen == 2
\* the issues of a review handed to the commit gate: at most MaxIssues
MaxIssues == 2
\* the scores of a review handed to the commit gate: 0..MaxScore
MaxScore == 10

\* callAnthropic, callGoogle: the cap of the thinking budget
ThinkingCap == 48000
\* callOpenAI: max_tokens when config.maxTokens is unset
OpenAIDefaultMaxTokens == 32768
\* callAnthropic: max_tokens when config.maxTokens is unset
AnthropicDefaultMaxTokens == 64000
\* callGoogle: maxOutputTokens when config.maxTokens is unset
GoogleDefaultMaxTokens == 64000
\* pollBatchResults: pollInterval, in ms
PollInterval == 2000
\* loadConfiguration: the default of retryAttempts
DefaultRetryAttempts == 3
\* reviewCommitsBatch: the batch size used when config.batchSize is falsy
DefaultBatchSize == 5
\* reviewCodeWithRetry: the backoff unit, in ms
BackoffUnit == 1000
\* this.config.minimumScore || 6
DefaultMinimumScore == 6

(***************************************************************************)
(* Tokens.                                                                 *)
(***************************************************************************)
\* a markdown fence: three backticks
FENCE == "<fence>"
JSONTAG == "json"
WS == " "
QUOTE == "\""
LBRACE == "{"
RBRACE == "}"
LBRACK == "["
RBRACK == "]"
COLON == ":"
COMMA == ","
NULLTOK == "null"

\* the numerals a provider answer may carry, with their values
NumOf == ("0" :> 0) @@ ("1" :> 1) @@ ("5" :> 5) @@ ("7" :> 7) @@ ("9" :> 9) @@ ("11" :> 11)
NumToks == DOMAIN NumOf
TokOfNum(n) == CHOOSE s \in NumToks : NumOf[s] = n

(***************************************************************************)
(* JavaScript values.  Every value is a record tagged by k, so that two    *)
(* values of different kinds compare unequal instead of being an error.    *)
(***************************************************************************)
Num(n) == [k |-> "num", v |-> n]
Str(s) == [k |-> "str", v |-> s]
Arr(a) == [k |-> "arr", v |-> a]
Obj(f) == [k |-> "obj", v |-> f]
Null == [k |-> "null", v |-> 0]
Undefined == [k |-> "undefined", v |-> 0]
\* a string handed around by the program (a provider answer, a diff)
Text(t) == [k |-> "text", v |-> t]

\* how a call ends
Return(v) == [k |-> "return", v |-> v]
Throw(e) == [k |-> "throw", v |-> e]

(***************************************************************************)
(* JSON.parse and JSON.stringify on token sequences (the library the       *)
(* normalizer calls).  No escapes are modelled: a string literal runs from *)
(* a quote to the next quote.                                              *)
(***************************************************************************)
\* the first index >= i of t that is not whitespace (Len(t) + 1 if none)
RECURSIVE SkipWs(_, _)
SkipWs(t, i) ==
  IF i > Len(t) \/ t[i] # WS THEN i ELSE SkipWs(t, i + 1)

\* the first index >= i of t holding token c (0 if none)
RECURSIVE IndexFrom(_, _, _)
IndexFrom(t, c, i) ==
  IF i > Len(t) THEN 0 ELSE IF t[i] = c THEN i ELSE IndexFrom(t, c, i + 1)

\* the last index of t holding token c (0 if none)
LastIndexOf(t, c) ==
  LET S == {i \in 1..Len(t) : t[i] = c}
  IN IF S = {} THEN 0 ELSE CHOOSE i \in S : \A j \in S : j <= i

PFail == [ok |-> FALSE, val |-> Null, next |-> 0]
POk(v, n) == [ok |-> TRUE, val |-> v, next |-> n]

\* a string literal whose opening quote is at index i
ParseString(t, i) ==
  LET q == IndexFrom(t, QUOTE, i + 1)
  IN IF q = 0 THEN PFail ELSE POk(Str(SubSeq(t, i + 1, q - 1)), q + 1)

RECURSIVE ParseValue(_, _)
RECURSIVE ParseElements(_, _, _)
RECURSIVE ParseMembers(_, _, _)

\* the elements of an array after "[" or ","; acc holds those read so far
ParseElements(t, i, acc) ==
  LET e == ParseValue(t, i)
      j == SkipWs(t, e.next)
  IN IF ~e.ok \/ j > Len(t) THEN PFail
     ELSE IF t[j] = RBRACK THEN POk(Arr(Append(acc, e.val)), j + 1)
     ELSE IF t[j] = COMMA THEN ParseElements(t, j + 1, Append(acc, e.val))
     ELSE PFail

\* the members of an object after "{" or ","; acc maps the keys read so far
ParseMembers(t, i, acc) ==
  LET j == SkipWs(t, i)
      key == IF j <= Len(t) /\ t[j] = QUOTE THEN ParseString(t, j) ELSE PFail
      c == SkipWs(t, key.next)
      e == IF key.ok /\ c <= Len(t) /\ t[c] = COLON THEN ParseValue(t, c + 1) ELSE PFail
      n == SkipWs(t, e.next)
      \* a key is a single word; a later member with the same key wins
      name == IF key.ok /\ Len(key.val.v) = 1 THEN key.val.v[1] ELSE ""
      acc2 == [x \in (DOMAIN acc) \cup {name} |-> IF x = name THEN e.val ELSE acc[x]]
  IN IF ~e.ok \/ name = "" \/ n > Len(t) THEN PFail
     ELSE IF t[n] = RBRACE THEN POk(Obj(acc2), n + 1)
     ELSE IF t[n] = COMMA THEN ParseMembers(t, n + 1, acc2)
     ELSE PFail

\* one JSON value starting at the first non-whitespace token at or after i
ParseValue(t, i) ==
  LET j == SkipWs(t, i)
  IN IF j > Len(t) THEN PFail
     ELSE IF t[j] \in NumToks THEN POk(Num(NumOf[t[j]]), j + 1)
     ELSE IF t[j] = NULLTOK THEN POk(Null, j + 1)
     ELSE IF t[j] = QUOTE THEN ParseString(t, j)
     ELSE IF t[j] = LBRACK THEN
       (LET n == SkipWs(t, j + 1)
        IN IF n <= Len(t) /\ t[n] = RBRACK THEN POk(Arr(<<>>), n + 1)
           ELSE ParseElements(t, j + 1, <<>>))
     ELSE IF t[j] = LBRACE THEN
       (LET n == SkipWs(t, j + 1)
        IN IF n <= Len(t) /\ t[n] = RBRACE THEN POk(Obj(<<>>), n + 1)
           ELSE ParseMembers(t, j + 1, <<>>))
     ELSE PFail

\* the value read must be all of the text, but for whitespace
WholeText(t, r) ==
  IF r.ok /\ SkipWs(t, r.next) > Len(t) THEN Return(r.val) ELSE Throw("SyntaxError")

\* JSON.parse(t): the value, or a SyntaxError
JSONParse(t) == WholeText(t, ParseValue(t, 1))

\* the order in which the keys of a review record are written
KeyOrder == <<"score", "summary", "issues", "suggestions", "security", "performance",
              "dependencies", "accessibility", "confidence", "severity", "description">>

RECURSIVE Stringify(_)
RECURSIVE StringifyElements(_, _)
RECURSIVE StringifyMembers(_, _, _)

StringifyElements(a, i) ==
  IF i > Len(a) THEN <<>>
  ELSE (IF i > 1 THEN <<COMMA>> ELSE <<>>) \o Stringify(a[i]) \o StringifyElements(a, i + 1)

StringifyMembers(f, i, first) ==
  IF i > Len(KeyOrder) THEN <<>>
  ELSE IF KeyOrder[i] \notin DOMAIN f THEN StringifyMembers(f, i + 1, first)
  ELSE (IF first THEN <<>> ELSE <<COMMA>>)
       \o <<QUOTE, KeyOrder[i], QUOTE, COLON>> \o Stringify(f[KeyOrder[i]])
       \o StringifyMembers(f, i + 1, FALSE)

\* JSON.stringify(v) of a number, string, array, object or null
Stringify(v) ==
  IF v.k = "num" THEN <<TokOfNum(v.v)>>
  ELSE IF v.k = "str" THEN <<QUOTE>> \o v.v \o <<QUOTE>>
  ELSE IF v.k = "arr" THEN <<LBRACK>> \o StringifyElements(v.v, 1) \o <<RBRACK>>
  ELSE IF v.k = "obj" THEN <<LBRACE>> \o StringifyMembers(v.v, 1, TRUE) \o <<RBRACE>>
  ELSE <<NULLTOK>>

(***************************************************************************)
(* The response normalizer, AIReviewer.parseResponse.                      *)
(***************************************************************************)
\* String.prototype.trim
Trim(t) ==
  LET S == {i \in 1..Len(t) : t[i] # WS}
  IN IF S = {} THEN <<>>
     ELSE SubSeq(t, CHOOSE i \in S : \A j \in S : i <= j, CHOOSE i \in S : \A j \in S : j <= i)

NoMatch == [found |-> FALSE, group |-> <<>>]
Match(g) == [found |-> TRUE, group |-> g]

\* t.match(/<fence>json\s*([\s\S]*?)\s*<fence>/): the leftmost fence that is tagged
\* json, up to the first fence after the tag; the group is the interior less the
\* whitespace at its ends
MatchJsonFence(t) ==
  LET S == {i \in 1..(Len(t) - 1) : t[i] = FENCE /\ t[i + 1] = JSONTAG}
      i == CHOOSE x \in S : \A y \in S : x <= y
      c == IndexFrom(t, FENCE, i + 2)
  IN IF S = {} \/ c = 0 THEN NoMatch ELSE Match(Trim(SubSeq(t, i + 2, c - 1)))

\* t.match(/<fence>\s*([\s\S]*?)\s*<fence>/): the first fence up to the next one
MatchFence(t) ==
  LET i == IndexFrom(t, FENCE, 1)
      c == IndexFrom(t, FENCE, i + 1)
  IN IF i = 0 \/ c = 0 THEN NoMatch ELSE Match(Trim(SubSeq(t, i + 1, c - 1)))

\* t.match(/\{[\s\S]*\}/): the first "{" through the last "}"
MatchBraces(t) ==
  LET a == IndexFrom(t, LBRACE, 1)
      b == LastIndexOf(t, RBRACE)
  IN IF a = 0 \/ b < a THEN NoMatch ELSE Match(SubSeq(t, a, b))

\* a fallback that lacks its confidence field
GetFallbackReviewPartial ==
  Obj([score |-> Num(7),
       summary |-> Str(<<"Review completed with basic analysis">>),
       issues |-> Arr(<<>>),
       suggestions |-> Arr(<<Str(<<"Consider adding more tests">>),
                             Str(<<"Ensure proper error handling">>)>>),
       security |-> Arr(<<>>),
       performance |-> Arr(<<>>),
       dependencies |-> Arr(<<>>),
       accessibility |-> Arr(<<>>)])

\* AIReviewer.getFallbackReview
GetFallbackReview ==
  Obj([score |-> Num(7),
       summary |-> Str(<<"Review completed with basic analysis">>),
       issues |-> Arr(<<>>),
       suggestions |-> Arr(<<Str(<<"Consider adding more tests">>),
                             Str(<<"Ensure proper error handling">>)>>),
       security |-> Arr(<<>>),
       performance |-> Arr(<<>>),
       dependencies |-> Arr(<<>>),
       accessibility |-> Arr(<<>>),
       confidence |-> Num(5)])

\* if (match) { cleanedResponse = match[1]; }
GroupOr(match, cleaned) == IF match.found THEN match.group ELSE cleaned

\* the json-tagged fence is taken off, if there is one
StripJsonFence(t) == GroupOr(MatchJsonFence(t), t)

\* then a fence of any kind is taken off, if there is one
StripFence(t) == GroupOr(MatchFence(t), t)

\* the text the two fence steps leave to be parsed
CleanedResponse(t) == StripFence(StripJsonFence(t))

\* the text handed to JSON.parse: the brace match if there is one, else the
\* cleaned text trimmed
Candidate(cleaned, jsonMatch) ==
  IF jsonMatch.found THEN jsonMatch.group ELSE Trim(cleaned)

ExtractJson(cleaned) == Candidate(cleaned, MatchBraces(cleaned))

\* the body of the try block, for a string
ParseResponseTry(t) == JSONParse(ExtractJson(CleanedResponse(t)))

\* the try block: response.match throws a TypeError on a value that is no string
ParseResponseBody(response) ==
  IF response.k = "text" THEN ParseResponseTry(response.v) ELSE Throw("TypeError")

\* the catch block: it logs response.substring(0, 200), which throws a TypeError
\* on a value that is no string, then returns the fallback
ParseResponseCatch(response) ==
  IF response.k = "text" THEN Return(GetFallbackReview) ELSE Throw("TypeError")

\* try { ... } catch (error) { ... }
ParseResponseEnd(response, tried) ==
  IF tried.k = "throw" THEN ParseResponseCatch(response) ELSE tried

\* parseResponse(response)
ParseResponse(response) == ParseResponseEnd(response, ParseResponseBody(response))

(***************************************************************************)
(* State.                                                                  *)
(***************************************************************************)
VARIABLES
  input,        \* normalizer run: the value handed to parseResponse
  output,       \* normalizer run: how the call ended
  via,          \* normalizer run: the function called, parseResponse or reviewCode
  request,      \* request run: the body of the last request built
  prompts,      \* request run: the prompts buildPrompt has returned, in order
  batchRequest, \* request run: the body of a request of the batch last built
  hooks,        \* hook run: the hooks directory of the repository, and what was done
  cfg,          \* the configuration the AIReviewer / ReviewerApp was built with
  commits,      \* the commits, in order: each "ok", "nofields" or "missing"
  diffs,        \* the diff of each commit (Unfetched until git has been asked)
  stack,        \* the pending async calls, the running one first
  ret,          \* how the call that ended last ended, for its caller to take
  reqLog,       \* the review requests answered so far: commit and payload
  inflight,     \* review requests issued and not yet answered
  reviewCodeCalls, \* calls of reviewCode so far
  createCalls,  \* batch-create requests issued
  createLog,    \* how the batch-create requests ended
  pollCalls,    \* batch status requests issued
  pollLog,      \* the statuses the last batch job has reported (a set)
  job,          \* the last batch job as the provider holds it: status and results
  sleeps,       \* the backoff sleeps of reviewCodeWithRetry, in order, in ms
  pollSleeps,   \* the ms pollBatchResults has slept since its last status request
  displayed,    \* displayReview calls that completed: commit and review
  exitCode      \* process.exit code (0: none)

vars == <<input, output, via, request, prompts, batchRequest, hooks, cfg, commits, diffs,
          stack, ret, reqLog, inflight, reviewCodeCalls, createCalls, createLog, pollCalls,
          pollLog, job, sleeps, pollSleeps, displayed, exitCode>>

normalizerVars == <<input, output, via>>
requestVars == <<request, prompts, batchRequest, hooks>>
inputVars == <<cfg, commits>>
httpVars == <<reqLog, inflight, createCalls, createLog, pollCalls, pollLog, job>>
batchVars == <<createCalls, createLog, pollCalls, pollLog, job, pollSleeps>>
appVars == <<displayed, exitCode>>

Providers == {"openai", "anthropic", "google"}
NoRet == [k |-> "none", v |-> 0]
Unfetched == [k |-> "unfetched", v |-> 0]
NotCalled == [k |-> "notcalled", v |-> 0]
\* no request body has been built
\* the git hooks this reviewer installs
HookNames == {"pre-commit", "pre-push"}

\* no hooks directory is looked at
NoHooks == [dir |-> FALSE, file |-> [h \in HookNames |-> "none"],
            backup |-> [h \in HookNames |-> "none"],
            before |-> [h \in HookNames |-> "none"],
            installs |-> [h \in HookNames |-> 0], uninstalled |-> FALSE]

NoRequest == [provider |-> "none", maxTokens |-> 0, hasBudget |-> FALSE, budget |-> 0,
              tools |-> FALSE]

\* the hash of the i-th commit, which the stub provider echoes in its summary
CommitToks == <<"c1", "c2", "c3", "c4">>

Frame(fn, pc, lo, hi, i, mx, acc) ==
  [fn |-> fn, pc |-> pc, lo |-> lo, hi |-> hi, i |-> i, mx |-> mx, acc |-> acc]

Top == stack[1]
Running(fn, pc) == stack # <<>> /\ Top.fn = fn /\ Top.pc = pc
\* the running call has a completion of its callee to take
Resumed(fn, pc) == Running(fn, pc) /\ ret.k # "none"

RECURSIVE Pow2(_)
Pow2(n) == IF n <= 0 THEN 1 ELSE 2 * Pow2(n - 1)

(***************************************************************************)
(* The provider: what the HTTP call of one review request may bring back,  *)
(* and what each adapter (callOpenAI, callAnthropic, callGoogle) makes of  *)
(* it.                                                                     *)
(***************************************************************************)
HttpError == [k |-> "httpError", v |-> 0]
Body(x) == [k |-> "body", v |-> x]
\* one content block (Anthropic) or part (Google): thought marks reasoning
Block(thought, t) == [k |-> "block", thought |-> thought, text |-> t]

\* a review of commit c as the model is asked to write it
Good(c, score) ==
  Obj([score |-> Num(score), summary |-> Str(<<CommitToks[c]>>), issues |-> Arr(<<>>)])

JsonFenced(t) == <<FENCE, JSONTAG, WS>> \o t \o <<WS, FENCE>>
PlainFenced(t) == <<FENCE, WS>> \o t \o <<WS, FENCE>>

\* the answers the model may give to the prompt about commit c
AnswerTexts(c) ==
  { Stringify(Good(c, 9)),
    JsonFenced(Stringify(Good(c, 9))),
    Stringify(Good(c, 11)),
    <<"ok">>,
    <<NULLTOK>> }

\* what the HTTP call of a review request about commit c may bring back
PayloadsFor(provider, c) ==
  {HttpError, Body(Undefined)}
  \cup (IF provider = "openai"
        THEN {Body(Null)} \cup {Body(Text(t)) : t \in AnswerTexts(c)}
        ELSE {Body(Arr(<<>>)),
              Body(Arr(<<Block(TRUE, <<"ok">>)>>)),
              Body(Arr(<<Block(TRUE, <<"ok">>), Block(FALSE, Stringify(Good(c, 9)))>>))}
             \cup {Body(Arr(<<Block(FALSE, t)>>)) : t \in AnswerTexts(c)})

\* Array.prototype.join(' ')
RECURSIVE JoinTexts(_)
JoinTexts(ts) ==
  IF ts = <<>> THEN <<>>
  ELSE IF Len(ts) = 1 THEN ts[1]
  ELSE ts[1] \o <<WS>> \o JoinTexts(Tail(ts))

\* the texts of the blocks that are kept, in order
RECURSIVE TextBlocks(_)
TextBlocks(bs) ==
  IF bs = <<>> THEN <<>>
  ELSE (IF bs[1].thought THEN <<>> ELSE <<bs[1].text>>) \o TextBlocks(Tail(bs))

\* callGoogle's filter: part.text && !part.thought (an empty text is falsy)
RECURSIVE TextParts(_)
TextParts(bs) ==
  IF bs = <<>> THEN <<>>
  ELSE (IF bs[1].thought \/ bs[1].text = <<>> THEN <<>> ELSE <<bs[1].text>>)
       \o TextParts(Tail(bs))

\* callOpenAI: response.data.choices[0].message.content
CallOpenAI(payload) ==
  IF payload.k = "httpError" THEN Throw("HttpError")
  ELSE IF payload.v.k = "undefined" THEN Throw("TypeError")
  ELSE Return(payload.v)

\* callAnthropic: the text blocks joined; a string content as it is
CallAnthropic(payload) ==
  IF payload.k = "httpError" THEN Throw("HttpError")
  ELSE IF payload.v.k = "arr" THEN Return(Text(JoinTexts(TextBlocks(payload.v.v))))
  ELSE IF payload.v.k = "text" /\ payload.v.v # <<>> THEN Return(payload.v)
  ELSE Throw("Unexpected response format from Anthropic API")

\* callGoogle: the parts that are text and no thought, joined
CallGoogle(payload) ==
  IF payload.k = "httpError" THEN Throw("HttpError")
  ELSE IF payload.v.k = "arr" THEN Return(Text(JoinTexts(TextParts(payload.v.v))))
  ELSE Throw("TypeError")

\* the switch of reviewCode, for a supported provider
CallProvider(provider, payload) ==
  IF provider = "openai" THEN CallOpenAI(payload)
  ELSE IF provider = "anthropic" THEN CallAnthropic(payload)
  ELSE CallGoogle(payload)

(***************************************************************************)
(* AIReviewer.reviewCode.                                                  *)
(***************************************************************************)
\* the checks of reviewCode without the one of the API key
ValidationErrorNoKeyCheck(diff, commit, apiKey) ==
  IF diff.k # "text" \/ diff.v = <<>> THEN "Invalid diff: must be a non-empty string"
  ELSE IF commit = "missing"
    THEN "Invalid commit: must be an object with hash, message, author, and date"
  ELSE IF commit = "nofields"
    THEN "Invalid commit: missing required fields (hash, message)"
  ELSE ""

\* the checks at the head of reviewCode: the error thrown, or "" if all pass
ValidationError(diff, commit, apiKey) ==
  IF diff.k # "text" \/ diff.v = <<>> THEN "Invalid diff: must be a non-empty string"
  ELSE IF commit = "missing"
    THEN "Invalid commit: must be an object with hash, message, author, and date"
  ELSE IF commit = "nofields"
    THEN "Invalid commit: missing required fields (hash, message)"
  ELSE IF ~apiKey THEN "AI API key not found. Set AI_API_KEY environment variable."
  ELSE ""

ValidationErrors ==
  {"Invalid diff: must be a non-empty string",
   "Invalid commit: must be an object with hash, message, author, and date",
   "Invalid commit: missing required fields (hash, message)",
   "AI API key not found. Set AI_API_KEY environment variable."}

\* return this.parseResponse(response), unless the adapter threw
ReviewCodeTry(response) ==
  IF response.k = "throw" THEN response ELSE ParseResponse(response.v)

\* a catch block that throws the error on
ReviewCodeCatchRethrows(tried) == tried

\* the catch block of reviewCode: whatever was thrown, the fallback is returned
ReviewCodeCatch(tried) ==
  IF tried.k = "throw" THEN Return(GetFallbackReview) ELSE tried

\* the try block of reviewCode once the HTTP call has ended, and its catch block
ReviewCodeResult(provider, payload) ==
  ReviewCodeCatch(ReviewCodeTry(CallProvider(provider, payload)))

\* the call that is running ends with completion c
Finish(c) == /\ stack' = Tail(stack)
             /\ ret' = c

\* the running call goes on as frame f
Goto(f) == /\ stack' = <<f>> \o Tail(stack)
           /\ ret' = NoRet

\* the running call, going on as frame f, awaits the new call g
Call(f, g) == /\ stack' = <<g, f>> \o Tail(stack)
              /\ ret' = NoRet

\* reviewCode up to its first await: validation, then the provider switch
ReviewCodeStart ==
  /\ Running("reviewCode", "start")
  /\ LET c == Top.lo
         err == ValidationError(diffs[c], commits[c], cfg.apiKey)
     IN IF err # "" THEN
          /\ Finish(Throw(err))
          /\ inflight' = inflight
        ELSE IF cfg.provider \notin Providers THEN
          \* "Unsupported AI provider", thrown and caught inside reviewCode
          /\ Finish(Return(GetFallbackReview))
          /\ inflight' = inflight
        ELSE
          /\ Goto([Top EXCEPT !.pc = "awaitHttp"])
          /\ inflight' = inflight + 1
  /\ reviewCodeCalls' = reviewCodeCalls + 1
  /\ UNCHANGED <<normalizerVars, requestVars, inputVars, diffs, reqLog, batchVars, sleeps, appVars>>

\* the HTTP call of reviewCode ends, with any payload the provider may send
ReviewCodeResponse ==
  /\ Running("reviewCode", "awaitHttp")
  /\ \E payload \in PayloadsFor(cfg.provider, Top.lo) :
       /\ reqLog' = Append(reqLog, [c |-> Top.lo, payload |-> payload])
       /\ Finish(ReviewCodeResult(cfg.provider, payload))
  /\ inflight' = inflight - 1
  /\ UNCHANGED <<normalizerVars, requestVars, reviewCodeCalls, inputVars, diffs, batchVars,
                 sleeps, appVars>>

(***************************************************************************)
(* AIReviewer.reviewCodeWithRetry.  Frame: lo the commit, i the attempt,   *)
(* mx maxRetries.                                                          *)
(***************************************************************************)
\* a delay with the attempts counted from 0
BackoffDelayFromZero(attempt) == Pow2(attempt - 1) * BackoffUnit

\* the delay after failed attempt n
BackoffDelay(attempt) == Pow2(attempt) * BackoffUnit

\* the head of the for loop: another attempt, or the end of the function body
RetryLoop ==
  /\ Running("reviewCodeWithRetry", "loop")
  /\ IF Top.i <= Top.mx
     THEN Call([Top EXCEPT !.pc = "await"],
               Frame("reviewCode", "start", Top.lo, Top.lo, 0, 0, <<>>))
     ELSE Finish(Return(Undefined))
  /\ UNCHANGED <<normalizerVars, requestVars, reviewCodeCalls, inputVars, diffs, httpVars, sleeps,
                 pollSleeps, appVars>>

\* reviewCode has ended: return its review, or catch its error
RetryAwait ==
  /\ Resumed("reviewCodeWithRetry", "await")
  /\ IF ret.k = "return" THEN
       /\ Finish(ret)
       /\ sleeps' = sleeps
     ELSE IF Top.i = Top.mx THEN
       /\ Finish(Return(GetFallbackReview))
       /\ sleeps' = sleeps
     ELSE
       /\ Goto([Top EXCEPT !.pc = "loop", !.i = Top.i + 1])
       /\ sleeps' = Append(sleeps, BackoffDelay(Top.i))
  /\ UNCHANGED <<normalizerVars, requestVars, reviewCodeCalls, inputVars, diffs, httpVars,
                 pollSleeps, appVars>>

(***************************************************************************)
(* AIReviewer.reviewMultipleCommits and reviewCommitsSequentially.  Frame: *)
(* lo..hi the commits handed over, i the loop index, acc the reviews.      *)
(***************************************************************************)
\* a reviewMultipleCommits that batches for every provider
MultiTargetAnyProvider(provider, n) ==
  IF n > 1 THEN "batchReviewAnthropic" ELSE "reviewCommitsSequentially"

\* which function reviewMultipleCommits hands the list with n commits to
MultiTarget(provider, n) ==
  IF provider = "anthropic" /\ n > 1 THEN "batchReviewAnthropic"
  ELSE "reviewCommitsSequentially"

MultiStart ==
  /\ Running("reviewMultipleCommits", "start")
  /\ Call([Top EXCEPT !.pc = "await"],
          Frame(MultiTarget(cfg.provider, Top.hi - Top.lo + 1),
                "start", Top.lo, Top.hi, 0, 0, <<>>))
  /\ UNCHANGED <<normalizerVars, requestVars, reviewCodeCalls, inputVars, diffs, httpVars, sleeps,
                 pollSleeps, appVars>>

\* return <the callee's promise>: its value or its rejection is the caller's
MultiAwait ==
  /\ Resumed("reviewMultipleCommits", "await")
  /\ Finish(ret)
  /\ UNCHANGED <<normalizerVars, requestVars, reviewCodeCalls, inputVars, diffs, httpVars, sleeps,
                 pollSleeps, appVars>>

\* a loop that reviews the first commit of its list at every turn
SequentialIndexStuck(lo, i) == lo

\* commits[i], diffs[i] of the list that starts at commit lo
SequentialIndex(lo, i) == lo + i

\* the for loop of reviewCommitsSequentially: review the next commit, or return
SequentiallyLoop ==
  /\ Running("reviewCommitsSequentially", "start")
  /\ IF Top.lo + Top.i <= Top.hi
     THEN Call([Top EXCEPT !.pc = "await"],
               Frame("reviewCode", "start", SequentialIndex(Top.lo, Top.i),
                     SequentialIndex(Top.lo, Top.i), 0, 0, <<>>))
     ELSE Finish(Return(Arr(Top.acc)))
  /\ UNCHANGED <<normalizerVars, requestVars, reviewCodeCalls, inputVars, diffs, httpVars, sleeps,
                 pollSleeps, appVars>>

\* reviewCode has ended: push its review; its error is not caught
SequentiallyAwait ==
  /\ Resumed("reviewCommitsSequentially", "await")
  /\ IF ret.k = "return"
     THEN Goto([Top EXCEPT !.pc = "start", !.i = Top.i + 1, !.acc = Append(Top.acc, ret.v)])
     ELSE Finish(ret)
  /\ UNCHANGED <<normalizerVars, requestVars, reviewCodeCalls, inputVars, diffs, httpVars, sleeps,
                 pollSleeps, appVars>>

(***************************************************************************)
(* AIReviewer.batchReviewAnthropic and pollBatchResults.                   *)
(***************************************************************************)
\* what a batch status request may bring back
PollError == [k |-> "httpError", v |-> "", results |-> <<>>]
PollStatus(status, results) == [k |-> "status", v |-> status, results |-> results]

\* the result the provider holds for the request about commit c
ResultOf(c) == Text(Stringify(Good(c, 9)))

\* the result lists a completed job may carry for the requests about lo..hi:
\* one result per request in submission order, the same in reverse order, one
\* result short, one unparseable text, one result without a text
ResultLists(lo, hi) ==
  LET n == hi - lo + 1
      aligned == [j \in 1..n |-> ResultOf(lo + j - 1)]
  IN { aligned,
       [j \in 1..n |-> ResultOf(hi - j + 1)],
       SubSeq(aligned, 1, n - 1),
       [aligned EXCEPT ![1] = Text(<<"ok">>)],
       [aligned EXCEPT ![1] = Undefined] }

\* the job at the provider: none yet, or its status and, once completed, its results
Job(status, results) == [status |-> status, results |-> results]
NoJob == Job("none", <<>>)

\* how the job about the requests lo..hi may stand at the next status request: a
\* pending job stays so, fails or completes; a job that ended stays as it ended
JobSteps(j, lo, hi) ==
  IF j.status = "pending"
  THEN {j, Job("failed", <<>>)} \cup {Job("completed", rs) : rs \in ResultLists(lo, hi)}
  ELSE {j}

\* what the status request brings back of job j: its status, or a transport error
PollOutcomes(j) == {PollError, PollStatus(j.status, j.results)}

\* results.map(result => this.parseResponse(result.response.body.content[0].text)):
\* the reviews, or the first error thrown
RECURSIVE MapParse(_, _)
MapParseNext(rs, acc, p) ==
  IF p.k = "throw" THEN p ELSE MapParse(Tail(rs), Append(acc, p.v))

MapParse(rs, acc) ==
  IF rs = <<>> THEN Return(Arr(acc)) ELSE MapParseNext(rs, acc, ParseResponse(rs[1]))

\* batchReviewAnthropic up to its await: the requests are built (commit.hash of a
\* commit that is no object is a TypeError, outside the try), then posted
BatchStart ==
  /\ Running("batchReviewAnthropic", "start")
  /\ IF \E c \in Top.lo..Top.hi : commits[c] = "missing" THEN
       /\ Finish(Throw("TypeError"))
       /\ createCalls' = createCalls
     ELSE
       /\ Goto([Top EXCEPT !.pc = "awaitCreate"])
       /\ createCalls' = createCalls + 1
  /\ UNCHANGED <<normalizerVars, requestVars, reviewCodeCalls, inputVars, diffs, reqLog, inflight,
                 createLog, pollCalls,
                 pollLog, job, sleeps, pollSleeps, appVars>>

\* a batchReviewAnthropic whose catch block calls reviewMultipleCommits again
AfterCreateRecurses(created) ==
  IF created THEN "pollBatchResults" ELSE "reviewMultipleCommits"

\* a batchReviewAnthropic that polls whether or not the job was created
AfterCreateAlwaysPolls(created) == "pollBatchResults"

\* which function batchReviewAnthropic goes on with once the create request ended
AfterCreate(created) ==
  IF created THEN "pollBatchResults" ELSE "reviewCommitsSequentially"

\* the batch-create request ends: poll the job, or (catch) review sequentially
BatchCreateResponse ==
  /\ Running("batchReviewAnthropic", "awaitCreate")
  /\ \E created \in BOOLEAN :
       /\ createLog' = Append(createLog, created)
       /\ job' = IF created THEN Job("pending", <<>>) ELSE NoJob
       /\ Call([Top EXCEPT !.pc = "await"],
               Frame(AfterCreate(created), "start", Top.lo, Top.hi, 0, 0, <<>>))
  /\ pollLog' = {}
  /\ pollSleeps' = 0
  /\ UNCHANGED <<normalizerVars, requestVars, reviewCodeCalls, inputVars, diffs, reqLog, inflight,
                 createCalls, pollCalls,
                 sleeps, appVars>>

\* return this.pollBatchResults(...) in the try block, and return
\* this.reviewCommitsSequentially(...) in the catch block: neither is awaited, so
\* the value or the rejection of either is batchReviewAnthropic's own
BatchAwait ==
  /\ Resumed("batchReviewAnthropic", "await")
  /\ Finish(ret)
  /\ UNCHANGED <<normalizerVars, requestVars, reviewCodeCalls, inputVars, diffs, httpVars, sleeps,
                 pollSleeps, appVars>>

\* the head of the for loop of pollBatchResults: a status request, or the timeout
PollLoop ==
  /\ Running("pollBatchResults", "start")
  /\ IF Top.i < PollMaxAttempts THEN
       /\ Goto([Top EXCEPT !.pc = "awaitGet"])
       /\ pollCalls' = pollCalls + 1
       /\ pollSleeps' = 0
     ELSE
       /\ Finish(Throw("Batch processing timed out"))
       /\ UNCHANGED <<pollCalls, pollSleeps>>
  /\ UNCHANGED <<normalizerVars, requestVars, reviewCodeCalls, inputVars, diffs, reqLog, inflight,
                 createCalls, createLog,
                 pollLog, job, sleeps, appVars>>

\* what one round of the poll loop does with what the status request brought:
\* "return" the reviews, "sleep" then go round again, or "catch" and go round again
PollCompleted(mapped) ==
  IF mapped.k = "throw" THEN [do |-> "catch", val |-> NoRet]
  ELSE [do |-> "return", val |-> mapped]

PollRound(outcome) ==
  IF outcome.k = "httpError" THEN [do |-> "catch", val |-> NoRet]
  ELSE IF outcome.v = "completed" THEN PollCompleted(MapParse(outcome.results, <<>>))
  ELSE IF outcome.v = "failed" THEN [do |-> "catch", val |-> NoRet]
  ELSE [do |-> "sleep", val |-> NoRet]

\* a poll loop in which a round that ended in its catch block is not counted
PollTakeErrorsUncounted(round) ==
  /\ IF round.do = "return" THEN Finish(round.val)
     ELSE IF round.do = "catch" THEN Goto([Top EXCEPT !.pc = "start"])
     ELSE Goto([Top EXCEPT !.pc = "start", !.i = Top.i + 1])
  /\ pollSleeps' = IF round.do = "sleep" THEN PollInterval ELSE 0

\* the poll loop takes its round: it returns, or goes round again
PollTake(round) ==
  /\ IF round.do = "return" THEN Finish(round.val)
     ELSE Goto([Top EXCEPT !.pc = "start", !.i = Top.i + 1])
  /\ pollSleeps' = IF round.do = "sleep" THEN PollInterval ELSE 0

\* the status request ends
PollResponse ==
  /\ Running("pollBatchResults", "awaitGet")
  /\ \E j \in JobSteps(job, Top.lo, Top.hi) : \E outcome \in PollOutcomes(j) :
       /\ job' = j
       /\ pollLog' = pollLog \cup {IF outcome.k = "httpError" THEN "error" ELSE outcome.v}
       /\ PollTake(PollRound(outcome))
  /\ UNCHANGED <<normalizerVars, requestVars, reviewCodeCalls, inputVars, diffs, reqLog, inflight,
                 createCalls, createLog,
                 pollCalls, sleeps, appVars>>

(***************************************************************************)
(* ReviewerApp: reviewCommits, reviewCommitsSequential, reviewCommitsBatch *)
(* and displayReview.  saveReviewToMarkdown catches whatever it throws and *)
(* changes nothing the model tells of, so it is left out.                  *)
(***************************************************************************)
GitError == [k |-> "gitError", v |-> 0]
\* what getCommitDiff(hash) may bring: a diff, an empty diff, or it throws
DiffOutcomes == {Text(<<"diff">>), Text(<<>>), GitError}

\* a list field of a review that displayReview walks with forEach: a string that
\* is not empty has a length but no forEach
ListThrows(review, key) ==
  /\ key \in DOMAIN review.v
  /\ review.v[key].k = "str"
  /\ review.v[key].v # <<>>

\* issue.severity.toUpperCase() of one entry of review.issues
IssueThrows(issue) ==
  \/ issue.k \in {"null", "undefined"}
  \/ issue.k = "obj" /\ "severity" \notin DOMAIN issue.v
  \/ issue.k = "obj" /\ "severity" \in DOMAIN issue.v /\ issue.v["severity"].k # "str"
  \/ issue.k \in {"num", "str", "arr"}

\* displayReview(review) throws a TypeError: review.score of null or undefined,
\* or a field of the review that is not what the function takes it to be
DisplayThrows(review) ==
  \/ review.k \in {"null", "undefined"}
  \/ /\ review.k = "obj"
     /\ \/ \E key \in {"issues", "suggestions", "security", "performance", "dependencies",
                       "accessibility"} : ListThrows(review, key)
        \/ /\ "issues" \in DOMAIN review.v
           /\ review.v["issues"].k = "arr"
           /\ \E j \in 1..Len(review.v["issues"].v) : IssueThrows(review.v["issues"].v[j])

\* process.exit(1)
Exit1 == /\ stack' = <<>>
         /\ ret' = NoRet
         /\ exitCode' = 1

\* which loop reviewCommits runs over n commits
AppTarget(batch, n) ==
  IF batch /\ n > 1 THEN "reviewCommitsBatch" ELSE "reviewCommitsSequential"

\* config.batchSize || 5
EffectiveBatchSize(batchSize) == IF batchSize = 0 THEN DefaultBatchSize ELSE batchSize

\* reviewCommits up to its await: getCommits (which may throw), then the choice of
\* the loop
AppStart ==
  /\ Running("reviewCommits", "start")
  /\ \/ Exit1
     \/ /\ IF Len(commits) = 0 THEN Finish(Return(Undefined))
           ELSE Call([Top EXCEPT !.pc = "await"],
                     Frame(AppTarget(cfg.enableBatchProcessing, Len(commits)), "start",
                           1, Len(commits), 0, EffectiveBatchSize(cfg.batchSize), <<>>))
        /\ exitCode' = exitCode
  /\ UNCHANGED <<normalizerVars, requestVars, reviewCodeCalls, inputVars, diffs, httpVars, sleeps,
                 pollSleeps, displayed>>

\* the loop has ended: done, or the catch block of reviewCommits
AppAwait ==
  /\ Resumed("reviewCommits", "await")
  /\ IF ret.k = "return" THEN Finish(Return(Undefined)) /\ exitCode' = exitCode
     ELSE Exit1
  /\ UNCHANGED <<normalizerVars, requestVars, reviewCodeCalls, inputVars, diffs, httpVars, sleeps,
                 pollSleeps, displayed>>

\* the for loop of reviewCommitsSequential: the diff of the next commit, then its
\* review with retries
AppSeqLoop ==
  /\ Running("reviewCommitsSequential", "start")
  /\ IF Top.i < Len(commits) THEN
       \E d \in DiffOutcomes :
         IF d = GitError THEN Finish(Throw("Failed to get diff")) /\ diffs' = diffs
         ELSE /\ diffs' = [diffs EXCEPT ![Top.i + 1] = d]
              /\ Call([Top EXCEPT !.pc = "await"],
                      Frame("reviewCodeWithRetry", "loop", Top.i + 1, Top.i + 1, 1,
                            cfg.retryAttempts, <<>>))
     ELSE Finish(Return(Undefined)) /\ diffs' = diffs
  /\ UNCHANGED <<normalizerVars, requestVars, reviewCodeCalls, inputVars, httpVars, sleeps,
                 pollSleeps, appVars>>

\* reviewCodeWithRetry has ended: displayReview
AppSeqAwait ==
  /\ Resumed("reviewCommitsSequential", "await")
  /\ IF ret.k = "throw" THEN Finish(ret) /\ displayed' = displayed
     ELSE IF DisplayThrows(ret.v) THEN Finish(Throw("TypeError")) /\ displayed' = displayed
     ELSE /\ displayed' = Append(displayed, [c |-> Top.i + 1, review |-> ret.v])
          /\ Goto([Top EXCEPT !.pc = "start", !.i = Top.i + 1])
  /\ UNCHANGED <<normalizerVars, requestVars, reviewCodeCalls, inputVars, diffs, httpVars, sleeps,
                 pollSleeps, exitCode>>

\* Array.prototype.slice on a list of n: the place its argument x stands for
SliceIndex(x, n) ==
  IF x < 0 THEN (IF n + x < 0 THEN 0 ELSE n + x) ELSE IF x > n THEN n ELSE x

\* the first commit of commits.slice(i, i + batchSize)
ChunkStart(i, n) == SliceIndex(i, n) + 1

\* the last commit of commits.slice(i, i + batchSize); the one before its first if
\* the slice is empty
ChunkEnd(i, batchSize, n) ==
  IF SliceIndex(i + batchSize, n) < ChunkStart(i, n) THEN ChunkStart(i, n) - 1
  ELSE SliceIndex(i + batchSize, n)

\* the for loop of reviewCommitsBatch: the diffs of the next chunk (Promise.all
\* rejects if one getCommitDiff throws), then the review of the chunk
AppBatchLoop ==
  /\ Running("reviewCommitsBatch", "start")
  /\ Top.i + MaxBackSteps >= 0
  /\ IF Top.i < Len(commits) THEN
       LET lo == ChunkStart(Top.i, Len(commits))
           hi == ChunkEnd(Top.i, Top.mx, Len(commits))
       IN \E got \in [lo..hi -> DiffOutcomes] :
            IF \E c \in lo..hi : got[c] = GitError
            THEN Finish(Throw("Failed to get diff")) /\ diffs' = diffs
            ELSE /\ diffs' = [c \in DOMAIN diffs |-> IF c \in lo..hi THEN got[c] ELSE diffs[c]]
                 /\ Call([Top EXCEPT !.pc = "await", !.lo = lo, !.hi = hi],
                         Frame("reviewMultipleCommits", "start", lo, hi, 0, 0, <<>>))
     ELSE Finish(Return(Undefined)) /\ diffs' = diffs
  /\ UNCHANGED <<normalizerVars, requestVars, reviewCodeCalls, inputVars, httpVars, sleeps,
                 pollSleeps, appVars>>

\* reviews[j]
At(reviews, j) == IF j <= Len(reviews) THEN reviews[j] ELSE Undefined

\* the display loop over a chunk of n commits: how many reviews it displays
\* before displayReview throws (n if it does not)
RECURSIVE DisplayedOf(_, _, _)
DisplayedOf(reviews, j, n) ==
  IF j > n \/ DisplayThrows(At(reviews, j)) THEN j - 1 ELSE DisplayedOf(reviews, j + 1, n)

\* the display loop over a chunk of n commits, of which it displays the first
\* shown: it throws at the next one, or the for loop of the chunks goes on
DisplayChunk(reviews, n, shown) ==
  /\ displayed' = displayed \o
        [j \in 1..shown |-> [c |-> Top.lo + j - 1, review |-> reviews[j]]]
  /\ IF shown < n THEN Finish(Throw("TypeError"))
     ELSE Goto([Top EXCEPT !.pc = "start", !.i = Top.i + Top.mx])

\* reviewMultipleCommits has ended: display reviews[j] for each commit of the chunk
AppBatchAwait ==
  /\ Resumed("reviewCommitsBatch", "await")
  /\ IF ret.k = "throw" THEN Finish(ret) /\ displayed' = displayed
     ELSE DisplayChunk(ret.v.v, Top.hi - Top.lo + 1,
                       DisplayedOf(ret.v.v, 1, Top.hi - Top.lo + 1))
  /\ UNCHANGED <<normalizerVars, requestVars, reviewCodeCalls, inputVars, diffs, httpVars, sleeps,
                 pollSleeps, exitCode>>

(***************************************************************************)
(* The normalizer on its own: a caller hands parseResponse any value.      *)
(***************************************************************************)
\* the characters a string of a review record is drawn from
StrAlphabet == {"ok", FENCE, JSONTAG, WS, LBRACE, RBRACE}
\* the tokens an arbitrary answer is drawn from
Alphabet == StrAlphabet \cup {QUOTE, LBRACK, RBRACK, COLON, COMMA, NULLTOK, "9"}

SeqsUpTo(S, n) == UNION {[1..m -> S] : m \in 0..n}

\* the review records whose serialization is handed over
ReviewRecords ==
  {Obj([score |-> Num(n), summary |-> Str(x), issues |-> Arr(<<>>)]) :
     n \in {1, 9}, x \in SeqsUpTo(StrAlphabet, MaxStrLen)}
  \cup {Obj([summary |-> Str(x)]) : x \in SeqsUpTo(StrAlphabet, MaxStrLen)}

Forms == {"raw", "json", "plain"}
Wrap(form, t) ==
  IF form = "json" THEN JsonFenced(t) ELSE IF form = "plain" THEN PlainFenced(t) ELSE t

\* an answer cut short: a proper prefix of a serialized record
Truncations == {SubSeq(Stringify(r), 1, m) : r \in ReviewRecords, m \in 1..7}
               \cup {t \in {SubSeq(Stringify(r), 1, Len(Stringify(r)) - 1) : r \in ReviewRecords} : TRUE}

\* what a caller may hand to parseResponse: the answer of a model (a record
\* serialized, raw or fenced; any short text; a record cut short) or no string at
\* all (the content of an OpenAI message that only calls a tool is null); among
\* the answers, JSON that is no object: a string quoting braces, a list of records
NormalizerInputs ==
  {Text(Wrap(f, Stringify(r))) : f \in Forms, r \in ReviewRecords}
  \cup {Text(<<QUOTE, LBRACE, "ok", RBRACE, QUOTE>>),
        Text(<<LBRACK, LBRACE, RBRACE, COMMA, LBRACE, RBRACE, RBRACK>>)}
  \cup {Text(t) : t \in SeqsUpTo(Alphabet, MaxGarbageLen)}
  \cup {Text(t) : t \in Truncations}
  \cup {Null, Undefined}

\* how the adapter called by reviewCode may end: with any of these values, or
\* with an error
AdapterOutcomes ==
  {Return(x) : x \in NormalizerInputs}
  \cup {Throw("HttpError"), Throw("Unexpected response format from Anthropic API")}

IdleCfg == [provider |-> "openai", apiKey |-> TRUE, retryAttempts |-> DefaultRetryAttempts,
            enableBatchProcessing |-> FALSE, batchSize |-> 0]

\* nothing has been requested, slept or displayed
Quiet ==
  /\ ret = NoRet
  /\ reqLog = <<>>
  /\ inflight = 0
  /\ reviewCodeCalls = 0
  /\ createCalls = 0
  /\ createLog = <<>>
  /\ pollCalls = 0
  /\ pollLog = {}
  /\ job = NoJob
  /\ sleeps = <<>>
  /\ pollSleeps = 0
  /\ displayed = <<>>
  /\ exitCode = 0

InitParse ==
  /\ input \in AdapterOutcomes
  /\ output = NotCalled
  /\ via = "none"
  /\ request = NoRequest
  /\ prompts = <<>>
  /\ batchRequest = NoRequest
  /\ hooks = NoHooks
  /\ cfg = IdleCfg
  /\ commits = <<>>
  /\ diffs = <<>>
  /\ stack = <<>>
  /\ Quiet

\* a caller calls parseResponse on the value
ParseCall ==
  /\ via = "none"
  /\ request = NoRequest
  /\ prompts = <<>>
  /\ input.k = "return"
  /\ output' = ParseResponse(input.v)
  /\ via' = "parseResponse"
  /\ UNCHANGED <<input, requestVars, reviewCodeCalls, inputVars, diffs, stack, ret, httpVars,
                 sleeps, pollSleeps, appVars>>

\* reviewCode goes on after its adapter ended so: the rest of its try block, and
\* its catch block
ReviewCall ==
  /\ via = "none"
  /\ request = NoRequest
  /\ prompts = <<>>
  /\ input.k \in {"return", "throw"}
  /\ output' = ReviewCodeCatch(ReviewCodeTry(input))
  /\ via' = "reviewCode"
  /\ UNCHANGED <<input, requestVars, reviewCodeCalls, inputVars, diffs, stack, ret, httpVars,
                 sleeps, pollSleeps, appVars>>

NextParse == ParseCall \/ ReviewCall

SpecParse == InitParse /\ [][NextParse]_vars

(***************************************************************************)
(* The inputs of the orchestrators.                                        *)
(***************************************************************************)
\* a commit and its diff as a caller may hand them over: valid, or with one defect
InputKinds ==
  { [commit |-> "ok", diff |-> Text(<<"diff">>)],
    [commit |-> "ok", diff |-> Text(<<>>)],
    [commit |-> "ok", diff |-> Undefined],
    [commit |-> "ok", diff |-> Num(5)],
    [commit |-> "nofields", diff |-> Text(<<"diff">>)],
    [commit |-> "missing", diff |-> Text(<<"diff">>)] }

\* the values of retryAttempts / maxRetries
RetryValues == (0 - 1)..MaxRetries

\* reviewCodeWithRetry(diff, commit, maxRetries) called on an AIReviewer
InitRetry ==
  /\ input = NotCalled
  /\ output = NotCalled
  /\ via = "none"
  /\ request = NoRequest
  /\ prompts = <<>>
  /\ batchRequest = NoRequest
  /\ hooks = NoHooks
  /\ \E provider \in Providers \cup {"other"}, apiKey \in BOOLEAN, mx \in RetryValues :
       /\ cfg = [IdleCfg EXCEPT !.provider = provider, !.apiKey = apiKey,
                                !.retryAttempts = mx]
       /\ stack = <<Frame("reviewCodeWithRetry", "loop", 1, 1, 1, mx, <<>>)>>
  /\ \E kind \in InputKinds :
       /\ commits = <<kind.commit>>
       /\ diffs = <<kind.diff>>
  /\ Quiet

NextRetry ==
  \/ RetryLoop
  \/ RetryAwait
  \/ ReviewCodeStart
  \/ ReviewCodeResponse

SpecRetry == InitRetry /\ [][NextRetry]_vars

\* reviewMultipleCommits(commits, diffs) called on an AIReviewer
InitMulti ==
  /\ input = NotCalled
  /\ output = NotCalled
  /\ via = "none"
  /\ request = NoRequest
  /\ prompts = <<>>
  /\ batchRequest = NoRequest
  /\ hooks = NoHooks
  /\ \E provider \in Providers \cup {"other"}, apiKey \in BOOLEAN :
       cfg = [IdleCfg EXCEPT !.provider = provider, !.apiKey = apiKey]
  /\ \E n \in 0..MaxCommits : \E kinds \in [1..n -> InputKinds] :
       /\ commits = [c \in 1..n |-> kinds[c].commit]
       /\ diffs = [c \in 1..n |-> kinds[c].diff]
       /\ stack = <<Frame("reviewMultipleCommits", "start", 1, n, 0, 0, <<>>)>>
  /\ Quiet

NextMulti ==
  \/ MultiStart
  \/ MultiAwait
  \/ SequentiallyLoop
  \/ SequentiallyAwait
  \/ BatchStart
  \/ BatchCreateResponse
  \/ BatchAwait
  \/ PollLoop
  \/ PollResponse
  \/ ReviewCodeStart
  \/ ReviewCodeResponse

SpecMulti == InitMulti /\ [][NextMulti]_vars

\* pollBatchResults(batchId) called on an AIReviewer, for a job that was created
\* for the commits
InitPoll ==
  /\ input = NotCalled
  /\ output = NotCalled
  /\ via = "none"
  /\ request = NoRequest
  /\ prompts = <<>>
  /\ batchRequest = NoRequest
  /\ hooks = NoHooks
  /\ \E apiKey \in BOOLEAN :
       cfg = [IdleCfg EXCEPT !.provider = "anthropic", !.apiKey = apiKey]
  /\ \E n \in 2..(MaxCommits + 1) :
       /\ commits = [c \in 1..n |-> "ok"]
       /\ diffs = [c \in 1..n |-> Text(<<"diff">>)]
       /\ stack = <<Frame("pollBatchResults", "start", 1, n, 0, 0, <<>>)>>
  /\ ret = NoRet
  /\ reqLog = <<>>
  /\ inflight = 0
  /\ reviewCodeCalls = 0
  /\ createCalls = 1
  /\ createLog = <<TRUE>>
  /\ pollCalls = 0
  /\ pollLog = {}
  /\ job = Job("pending", <<>>)
  /\ sleeps = <<>>
  /\ pollSleeps = 0
  /\ displayed = <<>>
  /\ exitCode = 0

NextPoll ==
  \/ PollLoop
  \/ PollResponse

SpecPoll == InitPoll /\ [][NextPoll]_vars

\* node src/index.js <range>: a ReviewerApp whose configuration passed
\* validateConfiguration, and the commits git log will report
Init ==
  /\ input = NotCalled
  /\ output = NotCalled
  /\ via = "none"
  /\ request = NoRequest
  /\ prompts = <<>>
  /\ batchRequest = NoRequest
  /\ hooks = NoHooks
  /\ \E provider \in Providers, batch \in BOOLEAN :
       \E retries \in (IF batch THEN {DefaultRetryAttempts} ELSE RetryValues) :
         \E size \in (IF batch THEN (0 - 1)..MaxCommits ELSE {0}) :
           cfg = [provider |-> provider, apiKey |-> TRUE, retryAttempts |-> retries,
                  enableBatchProcessing |-> batch, batchSize |-> size]
  /\ \E n \in 0..MaxCommits :
       /\ commits \in [1..n -> {"ok", "nofields"}]
       /\ diffs = [c \in 1..n |-> Unfetched]
  /\ stack = <<Frame("reviewCommits", "start", 0, 0, 0, 0, <<>>)>>
  /\ Quiet

Next ==
  \/ AppStart
  \/ AppAwait
  \/ AppSeqLoop
  \/ AppSeqAwait
  \/ AppBatchLoop
  \/ AppBatchAwait
  \/ RetryLoop
  \/ RetryAwait
  \/ NextMulti

Spec == Init /\ [][Next]_vars

\* the call the run started with has ended
Done == stack = <<>>



(***************************************************************************)
(* The request bodies of callOpenAI, callAnthropic and callGoogle, and      *)
(* buildPrompt.  maxTokens 0 stands for a config.maxTokens that is unset.   *)
(***************************************************************************)
\* this.config.maxTokens || dflt
TokensOr(maxTokens, dflt) == IF maxTokens = 0 THEN dflt ELSE maxTokens

\* a budget that is the whole of maxTokens
BudgetTokensWhole(maxTokens) == maxTokens

\* budgetTokens = Math.min(48000, Math.floor(maxTokens * 0.75))
BudgetTokens(maxTokens) ==
  IF ThinkingCap < (3 * maxTokens) \div 4 THEN ThinkingCap ELSE (3 * maxTokens) \div 4

RequestBody(provider, maxTokens, hasBudget, budget, tools) ==
  [provider |-> provider, maxTokens |-> maxTokens, hasBudget |-> hasBudget,
   budget |-> budget, tools |-> tools]

\* callOpenAI: requestBody
OpenAIRequest(c) ==
  RequestBody("openai", TokensOr(c.maxTokens, OpenAIDefaultMaxTokens), FALSE, 0,
              c.enableWebSearch)

\* callAnthropic: requestBody, with thinking.budget_tokens if extended thinking is on
AnthropicRequest(c) ==
  RequestBody("anthropic", TokensOr(c.maxTokens, AnthropicDefaultMaxTokens),
              c.enableExtendedThinking,
              IF c.enableExtendedThinking
              THEN BudgetTokens(TokensOr(c.maxTokens, AnthropicDefaultMaxTokens)) ELSE 0,
              c.enableWebSearch)

\* callGoogle: requestBody, with thinkingConfig.thinkingBudget if extended thinking
\* is on and the name of the model includes 'flash'
GoogleRequest(c) ==
  RequestBody("google", TokensOr(c.maxTokens, GoogleDefaultMaxTokens),
              c.enableExtendedThinking /\ c.flash,
              IF c.enableExtendedThinking /\ c.flash
              THEN BudgetTokens(TokensOr(c.maxTokens, GoogleDefaultMaxTokens)) ELSE 0,
              FALSE)

\* batchReviewAnthropic: the body of each request of the batch
BatchRequest(c) ==
  RequestBody("anthropic", TokensOr(c.maxTokens, AnthropicDefaultMaxTokens), FALSE, 0, FALSE)

\* the lines of the prompt template that depend on a feature flag
WebSearchLine == "Use web search to verify best practices"
CitationsLine == "Provide citations for any security recommendations"
CitationField == "\"citation\": \"<source URL or reference if applicable>\","
SourcesField == "\"sources\": [\"<list of sources consulted>\"],"

\* flag ? line : ''
LineIf(flag, line) == IF flag THEN line ELSE ""

\* a buildPrompt whose citation field follows enableWebSearch
BuildPromptFieldOnWebSearch(diff, commit, webSearch, citations) ==
  << "You are an expert code reviewer", commit.message, commit.author, commit.date,
     diff, "Please analyze this commit", LineIf(webSearch, WebSearchLine),
     LineIf(citations, CitationsLine), "Format your response as JSON",
     LineIf(webSearch, CitationField), "autoFixable", LineIf(citations, SourcesField),
     "confidence" >>

\* buildPrompt: the template, its pieces in order, with what is interpolated
BuildPrompt(diff, commit, webSearch, citations) ==
  << "You are an expert code reviewer", commit.message, commit.author, commit.date,
     diff, "Please analyze this commit", LineIf(webSearch, WebSearchLine),
     LineIf(citations, CitationsLine), "Format your response as JSON",
     LineIf(citations, CitationField), "autoFixable", LineIf(citations, SourcesField),
     "confidence" >>

\* the values of config.maxTokens: unset, small ones, and some about the defaults
\* and the cap
TokenLimits == 0..MaxSmallTokens \cup {47999, 48000, 63999, 64000, 64001, 100000}

\* the texts of a diff: tokens of a patch, the citation field among them
DiffTexts == SeqsUpTo({"+", CitationField}, MaxDiffLen) \ {<<>>}

\* the commits getCommits reports; %an of a commit may be empty
PromptCommits ==
  {[message |-> "fix", author |-> a, date |-> "2025-01-01"] : a \in {"ann", ""}}

\* an AIReviewer with any provider, token limit and feature flags, and a diff and
\* a commit at hand
InitRequest ==
  /\ input = NotCalled
  /\ output = NotCalled
  /\ via = "none"
  /\ request = NoRequest
  /\ prompts = <<>>
  /\ batchRequest = NoRequest
  /\ hooks = NoHooks
  /\ \E provider \in Providers, maxTokens \in TokenLimits,
        thinking \in BOOLEAN, flash \in BOOLEAN, web \in BOOLEAN, cit \in BOOLEAN :
       cfg = [provider |-> provider, apiKey |-> TRUE,
              retryAttempts |-> DefaultRetryAttempts, enableBatchProcessing |-> FALSE,
              batchSize |-> 0, maxTokens |-> maxTokens,
              enableExtendedThinking |-> thinking, flash |-> flash,
              enableWebSearch |-> web, enableCitations |-> cit]
  /\ \E d \in DiffTexts, commit \in PromptCommits :
       /\ diffs = <<d>>
       /\ commits = <<commit>>
  /\ stack = <<>>
  /\ Quiet

\* the adapter of the provider builds its request body
BuildRequest ==
  /\ request = NoRequest
  /\ request' = IF cfg.provider = "openai" THEN OpenAIRequest(cfg)
                ELSE IF cfg.provider = "anthropic" THEN AnthropicRequest(cfg)
                ELSE GoogleRequest(cfg)
  /\ UNCHANGED <<normalizerVars, prompts, batchRequest, hooks, reviewCodeCalls, inputVars,
                 diffs, stack, ret, httpVars, sleeps, pollSleeps, appVars>>

\* buildPrompt(diff, commit) is called, a first and a second time
BuildPromptCall ==
  /\ Len(prompts) < 2
  /\ prompts' = Append(prompts, BuildPrompt(diffs[1], commits[1], cfg.enableWebSearch,
                                            cfg.enableCitations))
  /\ UNCHANGED <<normalizerVars, request, batchRequest, hooks, reviewCodeCalls, inputVars,
                 diffs, stack, ret, httpVars, sleeps, pollSleeps, appVars>>

\* batchReviewAnthropic builds the requests of its batch: the body of each
BuildBatchRequest ==
  /\ cfg.provider = "anthropic"
  /\ batchRequest = NoRequest
  /\ batchRequest' = BatchRequest(cfg)
  /\ UNCHANGED <<normalizerVars, request, prompts, hooks, reviewCodeCalls, inputVars, diffs,
                 stack, ret, httpVars, sleeps, pollSleeps, appVars>>

NextRequest == BuildRequest \/ BuildPromptCall \/ BuildBatchRequest

SpecRequest == InitRequest /\ [][NextRequest]_vars

(***************************************************************************)
(* The commit gate, ReviewerApp.shouldAllowCommit.  minimumScore 0 stands   *)
(* for a config.minimumScore that is unset or 0.                            *)
(***************************************************************************)
Bool(b) == [k |-> "bool", v |-> IF b THEN 1 ELSE 0]

\* the severities the prompt asks the model to choose from
Severities == {"low", "medium", "high", "critical"}

\* review[key], undefined for a field the review lacks
Field(review, key) == IF key \in DOMAIN review.v THEN review.v[key] ELSE Undefined

\* this.config.blockingIssues || ['critical', 'high']
BlockingIssues(blockingIssues) ==
  IF blockingIssues.k = "undefined" THEN {"critical", "high"}
  ELSE {blockingIssues.v[j] : j \in 1..Len(blockingIssues.v)}

\* review.issues?.some(issue => blockingIssues.includes(issue.severity))
HasBlockingIssues(issues, blocking) ==
  /\ issues.k = "arr"
  /\ \E j \in 1..Len(issues.v) : issues.v[j] \in blocking

\* shouldAllowCommit(review): a review whose score is missing or 0 is let through
ShouldAllowCommit(review, blockingIssues, minimumScore) ==
  IF Field(review, "score").k = "undefined" \/ Field(review, "score").v = 0
  THEN TRUE
  ELSE /\ ~HasBlockingIssues(Field(review, "issues"), BlockingIssues(blockingIssues))
       /\ Field(review, "score").v
            >= (IF minimumScore = 0 THEN DefaultMinimumScore ELSE minimumScore)

\* the reviews the gate may be handed: with or without a score, with or without a
\* list of issues, each issue written as its severity
GateReviews ==
  LET scores == {Num(n) : n \in 0..MaxScore}
      lists == {Arr(l) : l \in SeqsUpTo(Severities, MaxIssues)}
  IN {Obj([score |-> s, issues |-> l]) : s \in scores, l \in lists}
     \cup {Obj([issues |-> l]) : l \in lists}
     \cup {Obj([score |-> s]) : s \in scores}

\* a ReviewerApp with any blockingIssues and minimumScore, and a review at hand
InitGate ==
  /\ input \in {Return(r) : r \in GateReviews}
  /\ output = NotCalled
  /\ via = "none"
  /\ request = NoRequest
  /\ prompts = <<>>
  /\ batchRequest = NoRequest
  /\ hooks = NoHooks
  /\ \E blocking \in {Undefined, Arr(<<>>), Arr(<<"critical">>),
                      Arr(<<"critical", "high", "medium">>)},
        minimum \in {0, 3, 8} :
       cfg = [provider |-> "openai", apiKey |-> TRUE,
              retryAttempts |-> DefaultRetryAttempts, enableBatchProcessing |-> FALSE,
              batchSize |-> 0, blockingIssues |-> blocking, minimumScore |-> minimum]
  /\ commits = <<>>
  /\ diffs = <<>>
  /\ stack = <<>>
  /\ Quiet

\* shouldAllowCommit(review) is called
ShouldAllowCommitCall ==
  /\ via = "none"
  /\ output' = Return(Bool(ShouldAllowCommit(input.v, cfg.blockingIssues, cfg.minimumScore)))
  /\ via' = "shouldAllowCommit"
  /\ UNCHANGED <<input, requestVars, reviewCodeCalls, inputVars, diffs, stack, ret, httpVars,
                 sleeps, pollSleeps, appVars>>

NextGate == ShouldAllowCommitCall

SpecGate == InitGate /\ [][NextGate]_vars

(***************************************************************************)
(* GitHookInstaller.  A hook file or its .backup file holds "none" (there   *)
(* is no such file), "user" (the hook the user wrote) or "ai" (the hook of  *)
(* this reviewer).                                                          *)
(***************************************************************************)
\* writeHook(hookPath, content) in an existing hooks directory: an existing hook
\* is copied to hookPath.backup, then the new hook is written
WriteHook(st, h) ==
  [st EXCEPT !.backup[h] = IF st.file[h] # "none" THEN st.file[h] ELSE st.backup[h],
             !.file[h] = "ai",
             !.installs[h] = st.installs[h] + 1]

\* the body of the loop of uninstallHooks for hook h: restore the backup and
\* delete it, or delete the hook
UninstallHook(st, h) ==
  IF st.file[h] = "none" THEN st
  ELSE IF st.backup[h] # "none"
       THEN [st EXCEPT !.file[h] = st.backup[h], !.backup[h] = "none"]
       ELSE [st EXCEPT !.file[h] = "none"]

\* a repository with or without a hooks directory, where the user may have
\* written a hook of either name
InitHooks ==
  /\ input = NotCalled
  /\ output = NotCalled
  /\ via = "none"
  /\ request = NoRequest
  /\ prompts = <<>>
  /\ batchRequest = NoRequest
  /\ \E dir \in BOOLEAN, before \in [HookNames -> {"none", "user"}] :
       hooks = [NoHooks EXCEPT !.dir = dir,
                               !.file = IF dir THEN before ELSE NoHooks.file,
                               !.before = IF dir THEN before ELSE NoHooks.before]
  /\ cfg = IdleCfg
  /\ commits = <<>>
  /\ diffs = <<>>
  /\ stack = <<>>
  /\ Quiet

\* installPreCommitHook() or installPrePushHook()
InstallHook(h) ==
  /\ ~hooks.uninstalled
  /\ hooks.installs[h] < MaxInstalls
  /\ IF hooks.dir
     THEN /\ hooks' = WriteHook(hooks, h)
          /\ ret' = Return(Undefined)
     ELSE /\ hooks' = [hooks EXCEPT !.installs[h] = hooks.installs[h] + 1]
          /\ ret' = Throw("Git hooks directory not found. Are you in a git repository?")
  /\ UNCHANGED <<normalizerVars, request, prompts, batchRequest, reviewCodeCalls, inputVars,
                 diffs, stack, httpVars, sleeps, pollSleeps, appVars>>

\* uninstallHooks(): both hooks, pre-commit first
UninstallHooks ==
  /\ ~hooks.uninstalled
  /\ hooks' = [UninstallHook(UninstallHook(hooks, "pre-commit"), "pre-push")
                 EXCEPT !.uninstalled = TRUE]
  /\ ret' = Return(Undefined)
  /\ UNCHANGED <<normalizerVars, request, prompts, batchRequest, reviewCodeCalls, inputVars,
                 diffs, stack, httpVars, sleeps, pollSleeps, appVars>>

NextHooks ==
  \/ \E h \in HookNames : InstallHook(h)
  \/ UninstallHooks

SpecHooks == InitHooks /\ [][NextHooks]_vars

(***************************************************************************)
(* The properties.                                                         *)
(***************************************************************************)
\* commit c, its diff and the API key pass the checks of reviewCode
ValidInput(c) == ValidationError(diffs[c], commits[c], cfg.apiKey) = ""

\* every provider call made so far failed in transport
AllCallsFailed == \A j \in DOMAIN reqLog : reqLog[j].payload = HttpError

\* C1: on valid input, with maxRetries 3 and a provider whose every HTTP call
\* throws, reviewCodeWithRetry makes exactly 3 attempts (3 provider calls), sleeps
\* 2000 ms then 4000 ms, and returns the fallback review
C1_RetryBudget ==
  (/\ Done
   /\ cfg.retryAttempts = 3
   /\ cfg.provider \in Providers
   /\ ValidInput(1)
   /\ AllCallsFailed)
  => (/\ reviewCodeCalls = 3
      /\ Len(reqLog) = 3
      /\ sleeps = <<2000, 4000>>
      /\ ret = Return(GetFallbackReview))

\* the commits displayed so far, in the order of their display
DisplayedCommits == [j \in 1..Len(displayed) |-> displayed[j].c]

\* C2: whatever the diff retrieval and the provider calls bring, the loop of
\* reviewCommits ends without an error, having displayed exactly one review for
\* every commit of the range, in commit order
C2_OneReviewPerCommit ==
  Resumed("reviewCommits", "await")
  => (/\ ret.k = "return"
      /\ DisplayedCommits = [j \in 1..Len(commits) |-> j])

\* the job reported failed, or every poll of the budget went by without completed
BatchJobLost ==
  \/ "failed" \in pollLog
  \/ pollCalls = PollMaxAttempts /\ "completed" \notin pollLog

\* C3: when the submitted batch job reports failed, or 30 polls elapse without a
\* completed status, reviewMultipleCommits does not fail and returns one review
\* per commit
C3_BatchLossFallsBack ==
  (Done /\ createLog = <<TRUE>> /\ BatchJobLost)
  => (/\ ret.k = "return"
      /\ ret.v.k = "arr"
      /\ Len(ret.v.v) = Len(commits))

\* v is a review record whose score is absent or an integer of 1..10
ScoreInRange(v) ==
  /\ v.k = "obj"
  /\ \/ "score" \notin DOMAIN v.v
     \/ v.v["score"].k = "num" /\ v.v["score"].v \in 1..10

\* C4: on valid input and with a retry budget of at least one attempt,
\* reviewCodeWithRetry never throws and returns a review record whose score is
\* absent or an integer between 1 and 10, whatever the provider does
C4_ScoreInRange ==
  (Done /\ cfg.retryAttempts >= 1 /\ ValidInput(1))
  => (ret.k = "return" /\ ScoreInRange(ret.v))

\* the reviews of commit c: what reviewCode can return for the answers the model
\* may give to the prompt about c, and the parsed result of the batch request
\* about c
ReviewsOfCommit(c) ==
  {ReviewCodeResult(cfg.provider, p).v : p \in PayloadsFor(cfg.provider, c)}
  \cup {ParseResponse(ResultOf(c)).v, GetFallbackReview}

\* C5: the list reviewMultipleCommits returns has exactly commits.length entries
\* and entry i is the review of commits[i] with diffs[i], on every path
C5_OrderAndLength ==
  (Done /\ ret.k = "return")
  => (/\ ret.v.k = "arr"
      /\ Len(ret.v.v) = Len(commits)
      /\ \A c \in 1..Len(ret.v.v) : c <= Len(commits) => ret.v.v[c] \in ReviewsOfCommit(c))

\* what reviewCommitsSequentially returns for the commits from c on, the provider
\* answering its requests as in log: one review per commit in commit order, or the
\* first validation error
RECURSIVE SequentialOutcome(_, _, _)
SequentialOutcome(c, log, acc) ==
  IF c > Len(commits) THEN Return(Arr(acc))
  ELSE IF ~ValidInput(c) THEN Throw(ValidationError(diffs[c], commits[c], cfg.apiKey))
  ELSE IF cfg.provider \notin Providers
    THEN SequentialOutcome(c + 1, log, Append(acc, GetFallbackReview))
  ELSE IF log = <<>> \/ log[1].c # c THEN Throw("no request about the commit")
  ELSE SequentialOutcome(c + 1, Tail(log),
                         Append(acc, ReviewCodeResult(cfg.provider, log[1].payload).v))

\* C6: when the batch-create request fails, reviewMultipleCommits issues no
\* batch-poll request and no second create request, and returns exactly what
\* reviewCommitsSequentially returns for the same commits and diffs
C6_CreateFailureSequential ==
  createLog = <<FALSE>>
  => (/\ pollCalls = 0
      /\ createCalls = 1
      /\ Done => ret = SequentialOutcome(1, reqLog, <<>>))

\* the create request failed and reviewMultipleCommits returned the reviews of
\* two commits or more, the first of which is the model's own
C6_Witness ==
  /\ Done
  /\ createLog = <<FALSE>>
  /\ ret.k = "return"
  /\ Len(ret.v.v) >= 2
  /\ Len(reqLog) = Len(commits)
  /\ ret.v.v[1] = Good(1, 9)

\* C7: parseResponse is total: whatever value it is handed, a text or no string
\* at all, it returns and never throws to its caller
C7_ParseResponseTotal ==
  via = "parseResponse" => output.k = "return"

\* no part of the text is JSON: none of its slices parses
NoJsonSlice(t) ==
  \A a \in 1..Len(t) : \A b \in a..Len(t) : JSONParse(SubSeq(t, a, b)).k = "throw"

\* the answer cannot be parsed into a review: the call failed, or it brought no
\* string, or a text no part of which is JSON
Unparseable(answer) ==
  \/ answer.k = "throw"
  \/ answer.k = "return" /\ answer.v.k # "text"
  \/ answer.k = "return" /\ answer.v.k = "text" /\ NoJsonSlice(answer.v.v)

\* the fallback review, field by field
FixedFallback ==
  [k |-> "obj",
   v |-> [score |-> [k |-> "num", v |-> 7],
          summary |-> [k |-> "str", v |-> <<"Review completed with basic analysis">>],
          issues |-> [k |-> "arr", v |-> <<>>],
          suggestions |-> [k |-> "arr",
                           v |-> <<[k |-> "str", v |-> <<"Consider adding more tests">>],
                                   [k |-> "str", v |-> <<"Ensure proper error handling">>]>>],
          security |-> [k |-> "arr", v |-> <<>>],
          performance |-> [k |-> "arr", v |-> <<>>],
          dependencies |-> [k |-> "arr", v |-> <<>>],
          accessibility |-> [k |-> "arr", v |-> <<>>],
          confidence |-> [k |-> "num", v |-> 5]]]

C9_RoundTrip ==
  \A r \in ReviewRecords : \A f \in Forms :
    (via = "parseResponse" /\ input = Return(Text(Wrap(f, Stringify(r)))))
    => output = Return(r)

\* C10: an input that fails the checks of reviewCode is not retried:
\* reviewCodeWithRetry makes one attempt, does not sleep, and ends with the error
C10_ValidationNotRetried ==
  (Done /\ cfg.retryAttempts >= 1 /\ ~ValidInput(1))
  => (/\ reviewCodeCalls = 1
      /\ sleeps = <<>>
      /\ ret.k = "throw"
      /\ ret.v \in ValidationErrors)


\* the input of the one review is invalid, in the words of the checks: the diff
\* is empty or no string, the commit is missing or lacks hash or message, or the
\* API key is empty
InvalidInput ==
  \/ diffs[1].k # "text"
  \/ diffs[1] = Text(<<>>)
  \/ commits[1] \in {"missing", "nofields"}
  \/ ~cfg.apiKey

\* C11: on invalid input reviewCode throws before any prompt is sent: no provider
\* request is ever issued, and each call of reviewCode ends with a validation
\* error, never with a review
C11_FailFast ==
  InvalidInput
  => (/\ reqLog = <<>>
      /\ inflight = 0
      /\ Resumed("reviewCodeWithRetry", "await")
           => (ret.k = "throw" /\ ret.v \in ValidationErrors))

\* reviewCode has just ended on a diff that is a number
C11_Witness ==
  /\ Resumed("reviewCodeWithRetry", "await")
  /\ diffs[1] = Num(5)
  /\ cfg.provider = "anthropic"
  /\ reviewCodeCalls = 1
  /\ ret.k = "throw"

\* C12: a batch job is created only for provider anthropic and more than one
\* commit; otherwise no batch endpoint is called, create or poll, and what
\* reviewMultipleCommits yields is what sequential processing yields
C12_BatchOnlyAnthropicMany ==
  /\ createCalls > 0 => (cfg.provider = "anthropic" /\ Len(commits) > 1)
  /\ (cfg.provider # "anthropic" \/ Len(commits) <= 1)
       => (/\ createCalls = 0
           /\ pollCalls = 0
           /\ Done => ret = SequentialOutcome(1, reqLog, <<>>))

\* two commits were reviewed with provider openai, one request each
C12_Witness ==
  /\ Done
  /\ cfg.provider = "openai"
  /\ Len(commits) = 2
  /\ ret.k = "return"
  /\ Len(reqLog) = 2
  /\ createCalls = 0

\* C13: no HTTP request to a provider, review call, batch create or batch poll, is
\* issued while the API key is empty or the provider is not one of the three
C13_NoRequestWithoutKey ==
  (~cfg.apiKey \/ cfg.provider \notin Providers)
  => (/\ reqLog = <<>>
      /\ inflight = 0
      /\ createCalls = 0
      /\ pollCalls = 0)


\* reviewCommitsSequentially has been called and has not ended
SequentialRunning ==
  \E j \in 1..Len(stack) : stack[j].fn = "reviewCommitsSequentially"

\* C19: within one call of reviewMultipleCommits at most one batch job is created,
\* and while the sequential path runs no batch-create and no batch-poll request is
\* issued
C19_NoBatchAfterFallback ==
  /\ [](createCalls <= 1)
  /\ [][SequentialRunning => (createCalls' = createCalls /\ pollCalls' = pollCalls)]_vars

\* the create request failed and the sequential path has had an answer
C19_Witness ==
  /\ SequentialRunning
  /\ createLog = <<FALSE>>
  /\ Len(reqLog) >= 1

\* C20: in sequential processing the review requests go out in input order, one
\* commit after the other, the request about a commit only after the requests
\* about the commits before it have ended, and never two at a time
C20_OneRequestAtATime ==
  /\ inflight <= 1
  /\ \A j \in 1..Len(reqLog) : \A h \in 1..Len(reqLog) : j < h => reqLog[j].c < reqLog[h].c
  /\ Running("reviewCode", "awaitHttp")
       => (inflight = 1 /\ \A j \in 1..Len(reqLog) : reqLog[j].c < Top.lo)

\* reviewCommitsSequential has had the answers about two commits, in their order
C20_Witness ==
  /\ ~cfg.enableBatchProcessing
  /\ Len(reqLog) = 2
  /\ reqLog[1].c = 1
  /\ reqLog[2].c = 2
  /\ Len(displayed) = 2


\* the status requests made so far are as many as the attempts of the loop
AttemptsCounted ==
  /\ Running("pollBatchResults", "start") => pollCalls = Top.i
  /\ Running("pollBatchResults", "awaitGet") => pollCalls = Top.i + 1

\* C16: pollBatchResults makes at most 30 status requests for a job, every
\* attempt counting against that budget whether it ended in a status or in an
\* error, and once the budget is spent its next step is to end
C16_PollBudget ==
  /\ [](pollCalls <= 30 /\ AttemptsCounted)
  /\ [][(Running("pollBatchResults", "start") /\ pollCalls >= 30) => Done']_vars

\* pollBatchResults has ended after 30 status requests, some of which failed
C16_Witness ==
  /\ Done
  /\ pollCalls = 30
  /\ "error" \in pollLog
  /\ ret = Throw("Batch processing timed out")

\* C17: any two consecutive status requests for a job are 2000 ms apart: when the
\* loop is about to make another request it has slept 2000 ms since the last
\* one, whatever that one brought
C17_FixedInterval ==
  (Running("pollBatchResults", "start") /\ Top.i > 0 /\ Top.i < PollMaxAttempts)
  => pollSleeps = 2000

\* C18: once a status request has brought completed or failed, no further status
\* request is made for the job
C18_StopsOnTerminal ==
  Running("pollBatchResults", "awaitGet")
  => ("completed" \notin pollLog /\ "failed" \notin pollLog)


\* min(48000, floor(maxTokens * 0.75)), for the maxTokens of the configuration or
\* the default 64000 if it is unset
ExpectedBudget ==
  LET m == IF cfg.maxTokens = 0 THEN 64000 ELSE cfg.maxTokens
      q == (75 * m) \div 100
  IN IF q < 48000 THEN q ELSE 48000

\* C14: a request that carries a thinking budget carries min(48000,
\* floor(maxTokens * 0.75)), and that is strictly less than the max-token value
\* of the same request
C14_ThinkingBudget ==
  request.hasBudget
  => (request.budget = ExpectedBudget /\ request.budget < request.maxTokens)

\* a request of callGoogle with a budget, for maxTokens 1: the budget is 0
C14_Witness ==
  /\ request.provider = "google"
  /\ request.hasBudget
  /\ cfg.maxTokens = 1
  /\ request.budget = 0

C21_WebSearchTool ==
  request # NoRequest => (request.tools <=> cfg.enableWebSearch)

\* C22: an answer of Anthropic or Google whose content holds no text (no block at
\* all, or thinking blocks only) makes the adapter throw: it never returns a string
\* for it, the empty string included
C22_NoTextIsAnError ==
  \A j \in 1..Len(reqLog) :
    (/\ cfg.provider \in {"anthropic", "google"}
     /\ reqLog[j].payload.k = "body"
     /\ reqLog[j].payload.v.k = "arr"
     /\ \A b \in 1..Len(reqLog[j].payload.v.v) : reqLog[j].payload.v.v[b].thought)
    => CallProvider(cfg.provider, reqLog[j].payload).k = "throw"

\* the first-"{"-to-last-"}" candidate of the cleaned text is found and is no JSON
CandidateFails(cleaned) ==
  /\ MatchBraces(cleaned).found
  /\ JSONParse(MatchBraces(cleaned).group).k = "throw"

\* C23: when the first-"{"-to-last-"}" candidate is found but is no JSON,
\* parseResponse goes on to parse the trimmed whole text: it returns the value of
\* that text if it is JSON, and the fallback only if it is not
C23_AttemptsInOrder ==
  (via = "parseResponse" /\ input.v.k = "text" /\ CandidateFails(CleanedResponse(input.v.v)))
  => output = (IF JSONParse(Trim(CleanedResponse(input.v.v))).k = "return"
               THEN JSONParse(Trim(CleanedResponse(input.v.v)))
               ELSE [k |-> "return", v |-> FixedFallback])

\* C24: when attempt n of reviewCodeWithRetry fails and n < maxRetries, the
\* function sleeps 2^n * 1000 ms and only then starts attempt n + 1; when attempt
\* n = maxRetries fails it does not sleep and returns the fallback review; no two
\* attempts are under way at once
C24_BackoffSchedule ==
  /\ [](/\ inflight <= 1
        /\ \A j \in 1..Len(sleeps) : sleeps[j] = (2 ^ j) * 1000
        /\ reviewCodeCalls >= 1 => Len(sleeps) >= reviewCodeCalls - 1)
  /\ [][(Resumed("reviewCodeWithRetry", "await") /\ ret.k = "throw")
        => IF reviewCodeCalls < cfg.retryAttempts
           THEN /\ sleeps' = Append(sleeps, (2 ^ reviewCodeCalls) * 1000)
                /\ reviewCodeCalls' = reviewCodeCalls
                /\ Running("reviewCodeWithRetry", "loop")'
           ELSE /\ sleeps' = sleeps
                /\ ret' = [k |-> "return", v |-> FixedFallback]
                /\ Done']_vars

\* all four attempts of a call with maxRetries 4 failed: three sleeps, of 2000,
\* 4000 and 8000 ms, and the fallback review
C24_Witness ==
  /\ Done
  /\ cfg.retryAttempts = 4
  /\ reviewCodeCalls = 4
  /\ sleeps = <<2000, 4000, 8000>>
  /\ ret = [k |-> "return", v |-> FixedFallback]

\* C25: shouldAllowCommit returns true only for a review that has no issue whose
\* severity is in the configured blockingIssues (critical and high if none is
\* configured) and whose score is at least the configured minimumScore (6 if none
\* is configured); a review with a blocking issue is rejected
C25_GateBlocksSevere ==
  (via = "shouldAllowCommit" /\ output = [k |-> "return", v |-> [k |-> "bool", v |-> 1]])
  => LET blocking == IF cfg.blockingIssues.k = "undefined" THEN <<"critical", "high">>
                     ELSE cfg.blockingIssues.v
         minimum == IF cfg.minimumScore = 0 THEN 6 ELSE cfg.minimumScore
         review == input.v.v
     IN /\ "issues" \in DOMAIN review
          => \A j \in 1..Len(review["issues"].v) :
               \A b \in 1..Len(blocking) : review["issues"].v[j] # blocking[b]
        /\ "score" \in DOMAIN review
        /\ review["score"].v >= minimum

C27_NeverUndefined ==
  Done => (ret.k = "return" /\ ret.v.k # "undefined")

\* C28: every chunk of reviewCommitsBatch starts right after the commits the
\* loop has covered, is not empty, holds no more than batchSize commits (5 if
\* batchSize is unset or 0) and is full unless it ends the list: the chunks are a
\* partition of the commit list in its order, and the loop ends after at most
\* one round per commit
C28_ChunksPartition ==
  \A d \in 1..Len(stack) :
    (stack[d].fn = "reviewCommitsBatch" /\ stack[d].pc = "await")
    => LET size == IF cfg.batchSize = 0 THEN 5 ELSE cfg.batchSize
       IN /\ stack[d].i >= 0
          /\ stack[d].lo = stack[d].i + 1
          /\ stack[d].lo <= stack[d].hi
          /\ stack[d].hi - stack[d].lo + 1 <= size
          /\ stack[d].hi = Len(commits) \/ stack[d].hi - stack[d].lo + 1 = size

\* C29: the body of a request in the batch is the body callAnthropic sends for
\* the same reviewer: same max_tokens, same thinking budget, same web-search tool
C29_BatchBodySame ==
  (request # NoRequest /\ batchRequest # NoRequest) => batchRequest = request

\* C30: after n >= 1 installs of a hook followed by uninstallHooks, the hook file
\* is what it was before the first install (the hook of the user, or no file) and
\* no .backup file is left
C30_InstallUninstallRoundTrip ==
  hooks.uninstalled
  => \A h \in {"pre-commit", "pre-push"} :
       (hooks.dir /\ hooks.installs[h] >= 1)
       => (hooks.file[h] = hooks.before[h] /\ hooks.backup[h] = "none")

====
